---- MODULE Spec2Model ----
(***************************************************************************)
(* ipfs-sync (src/src/main.rs): one-directional sync of a local directory  *)
(* tree onto an MFS subtree.  The model follows main() and re_curse() step *)
(* by step.  The local file system and the MFS daemon are the environment: *)
(* every call into them may fail, and read_dir yields entries in any order.*)
(*                                                                         *)
(* Paths are sequences of names relative to the sync root (the source      *)
(* directory locally, the destination directory in MFS).  A content hash   *)
(* is modelled by the content it addresses: the hash of a path is the      *)
(* subtree found there, so two paths have equal hashes exactly when they   *)
(* hold equal content.                                                     *)
(***************************************************************************)
EXTENDS Integers, Sequences, FiniteSets, TLC

\* ------------------------------------------------------------------ bounds
\* Number of environment faults (failing calls that would otherwise succeed)
\* injected over one behaviour.
MaxFaults == 1
\* Number of consecutive runs of the program against the same MFS.
MaxRuns == 2
\* Largest reading of the monotonic clock.
MaxTime == 3

\* ------------------------------------------------------------------- paths
\* A file name that is not valid unicode (OsStr::to_str gives None).
BadName == "n_xFF"

IsUnicode(name) == name # BadName

PathIsUnicode(p) == \A i \in 1..Len(p) : IsUnicode(p[i])

IsPrefix(p, q) == Len(p) <= Len(q) /\ SubSeq(q, 1, Len(p)) = p

Suffix(p, q) == SubSeq(q, Len(p) + 1, Len(q))

\* Length of the longest common prefix of two paths.
RECURSIVE CommonLen(_, _)
CommonLen(p, q) ==
    IF p = <<>> \/ q = <<>> \/ Head(p) # Head(q) THEN 0
    ELSE 1 + CommonLen(Tail(p), Tail(q))

Dots(n) == [i \in 1..n |-> ".."]

\* pathdiff::diff_paths(path, base) for two absolute paths without "..":
\* one ".." for every component of base below the common prefix, then the
\* rest of path.
DiffPaths(path, base) ==
    LET k == CommonLen(path, base)
    IN  Dots(Len(base) - k) \o SubSeq(path, k + 1, Len(path))

\* Resolution of a joined MFS path: ".." drops the component before it; a
\* path that climbs above the destination root is outside the synced tree.
RECURSIVE Resolve(_, _)
Resolve(acc, rest) ==
    IF rest = <<>> THEN [inside |-> TRUE, path |-> acc]
    ELSE IF Head(rest) = ".."
         THEN IF acc = <<>> THEN [inside |-> FALSE, path |-> <<>>]
              ELSE Resolve(SubSeq(acc, 1, Len(acc) - 1), Tail(rest))
         ELSE Resolve(Append(acc, Head(rest)), Tail(rest))

\* mfs.cd(rel) from the MFS directory handle at p.
Cd(p, rel) == Resolve(<<>>, p \o rel)

\* ------------------------------------------------------------------- trees
\* A tree is a function from paths to nodes; the root of the tree is <<>>.
Children(tree, p) ==
    { q[Len(p) + 1] : q \in { r \in DOMAIN tree : Len(r) = Len(p) + 1 /\ IsPrefix(p, r) } }

ParentIsDir(tree, p) ==
    \/ p = <<>>
    \/ LET par == SubSeq(p, 1, Len(p) - 1)
       IN  par \in DOMAIN tree /\ tree[par].type = "dir"

\* The hash MFS reports for path p (stat().Hash): the content found there.
HashOf(tree, p) ==
    { <<Suffix(p, q), tree[q]>> : q \in { r \in DOMAIN tree : IsPrefix(p, r) } }

\* Size in bytes of a file content (the code reads no size; the sizes serve
\* the statement of the size-diff rule only).
SizeOf(c) == IF c = 3 THEN 20 ELSE 10

\* The size MFS lists for a node.
RemoteSize(node) == IF node.type = "dir" THEN 0 ELSE SizeOf(node.content)

RNode(type, content) == [type |-> type, content |-> content]

\* The hash api.add() returns for a file of the given content.
AddHash(content) == { << <<>>, RNode("file", content) >> }

\* mfs.rm(): the path and everything below it is gone.
Remove(tree, p) ==
    LET keep == { q \in DOMAIN tree : ~IsPrefix(p, q) }
    IN  [q \in keep |-> tree[q]]

\* Mkdir that creates nothing.
MkdirNoop(tree, p) == tree

\* mfs.mkdir(): an empty directory at p.
Mkdir(tree, p) ==
    [q \in DOMAIN tree \cup {p} |-> IF q = p THEN RNode("dir", 0) ELSE tree[q]]

\* mfs.cpf(hash): whatever is at p is replaced by the content of the hash.
Cpf(tree, p, h) ==
    LET base == Remove(tree, p)
        new  == { p \o e[1] : e \in h }
    IN  [q \in DOMAIN base \cup new |->
            IF q \in new THEN (CHOOSE e \in h : p \o e[1] = q)[2] ELSE base[q]]

\* ------------------------------------------------------------ local inputs
LFile(content, ctime) ==
    [type |-> "file", content |-> content, ctime |-> ctime, target |-> <<>>, dangling |-> FALSE]

LDir ==
    [type |-> "dir", content |-> 0, ctime |-> 0, target |-> <<>>, dangling |-> FALSE]

\* A symlink and the canonical path of what it points to.
LLink(target) ==
    [type |-> "symlink", content |-> 0, ctime |-> 0, target |-> target, dangling |-> FALSE]

LDangling ==
    [type |-> "symlink", content |-> 0, ctime |-> 0, target |-> <<>>, dangling |-> TRUE]

\* a.txt, b/ with c.txt, and a symlink s -> b/c.txt.
TreePlain ==
    ( <<>> :> LDir ) @@ ( <<"a">> :> LFile(1, 1) ) @@ ( <<"b">> :> LDir )
    @@ ( <<"b", "c">> :> LFile(2, 2) ) @@ ( <<"s">> :> LLink(<<"b", "c">>) )

\* A symlink s -> b/, where b/ itself holds a symlink t -> b/c.
TreeNested ==
    ( <<>> :> LDir ) @@ ( <<"b">> :> LDir ) @@ ( <<"b", "c">> :> LFile(2, 1) )
    @@ ( <<"b", "t">> :> LLink(<<"b", "c">>) ) @@ ( <<"s">> :> LLink(<<"b">>) )

\* A directory whose name is not unicode, a symlink into it, a dangling link.
TreeOdd ==
    ( <<>> :> LDir ) @@ ( <<"a">> :> LFile(3, 2) ) @@ ( <<BadName>> :> LDir )
    @@ ( <<BadName, "c">> :> LFile(1, 1) ) @@ ( <<"s">> :> LLink(<<BadName, "c">>) )
    @@ ( <<"x">> :> LDangling )

LocalTrees == { TreePlain, TreeNested, TreeOdd }

\* ----------------------------------------------------------- remote inputs
\* The destination does not exist yet.
RemoteAbsent == [q \in {} |-> RNode("dir", 0)]

\* An earlier state of the destination: a.txt with another size, a stale
\* file z, and a plain file where the local tree has the directory b.
RemoteOld ==
    ( <<>> :> RNode("dir", 0) ) @@ ( <<"a">> :> RNode("file", 3) )
    @@ ( <<"z">> :> RNode("file", 1) ) @@ ( <<"b">> :> RNode("file", 1) )

\* A destination that already mirrors most names: b/c with other content
\* of the same size, a stale directory b/y with a child, s as a copy of the
\* old b/c, and a directory where the local tree has the file a.
RemoteMirror ==
    ( <<>> :> RNode("dir", 0) ) @@ ( <<"a">> :> RNode("dir", 0) )
    @@ ( <<"a", "k">> :> RNode("file", 1) ) @@ ( <<"b">> :> RNode("dir", 0) )
    @@ ( <<"b", "c">> :> RNode("file", 1) ) @@ ( <<"b", "y">> :> RNode("dir", 0) )
    @@ ( <<"b", "y", "k">> :> RNode("file", 2) ) @@ ( <<"s">> :> RNode("file", 1) )

RemoteTrees == { RemoteAbsent, RemoteOld, RemoteMirror }

\* ------------------------------------------------------------------ config
None == [some |-> FALSE, val |-> 0]

Some(v) == [some |-> TRUE, val |-> v]

\* Lines 79-104: the change-time limit: --after if given, else the content
\* of the --tsfile file, 0 if that cannot be read or parsed, else none.
SyncFrom(after, syncff, ts) ==
    IF after.some THEN after
    ELSE IF syncff THEN (IF ts.some THEN ts ELSE Some(0))
    ELSE None

\* A command line without --tsfile.
Config(syncfrom, flushivl, nocopy, verbosity) ==
    [syncfrom |-> syncfrom, flushivl |-> flushivl, nocopy |-> nocopy, verbosity |-> verbosity,
     after |-> syncfrom, syncff |-> FALSE]

\* A command line with --tsfile and no --after, the file holding ts.
ConfigTs(ts, flushivl, nocopy, verbosity) ==
    [syncfrom |-> SyncFrom(None, TRUE, ts), flushivl |-> flushivl, nocopy |-> nocopy,
     verbosity |-> verbosity, after |-> None, syncff |-> TRUE]

\* The command lines tried: plain; --after @1 --nocopy -v; --flush 1s -v;
\* --after @1 --flush 0s; --tsfile with a file that holds no number yet.
Configs ==
    { Config(None, None, FALSE, 0), Config(Some(1), None, TRUE, 1),
      Config(None, Some(1), FALSE, 1), Config(Some(1), Some(0), FALSE, 0),
      ConfigTs(None, None, FALSE, 0) }

\* The files whose content is changed between two runs: those a symlink
\* points to.
Editable(tree) ==
    { p \in DOMAIN tree :
        /\ tree[p].type = "file"
        /\ \E q \in DOMAIN tree :
              tree[q].type = "symlink" /\ ~tree[q].dangling /\ tree[q].target = p }

\* The content a file has after it was changed: another one, of another size.
NewContent(c) == IF c = 3 THEN 1 ELSE 3

\* No MFS session has been created by this process.
NoSession == [some |-> FALSE, val |-> FALSE]

\* The MFS session created with the given autoflush flag.
Session(flag) == [some |-> TRUE, val |-> flag]

\* AutoFlush with the flag set for every configured interval.
AutoFlushConfigured(flushivl) == flushivl.some

\* Line 111: the autoflush flag of the MFS session.
AutoFlush(flushivl) == flushivl.some /\ flushivl.val <= 0

\* ------------------------------------------------------------------- state
VARIABLES
    local,      \* the source tree
    cfg,        \* the parsed command line
    remote,     \* the MFS tree below the destination path
    phase,      \* where main() is
    stack,      \* the active re_curse calls, innermost last
    symlinks,   \* the deferred symlinks main() still has to install
    errs,       \* the per-entry error counter of this run
    now,        \* the last reading of the monotonic clock
    nextflush,  \* the flush closure's deadline
    result,     \* what the run printed and its exit code
    run,        \* which run this is
    faults,     \* environment faults injected so far
    stats,      \* what this run did so far
    prev,       \* result of the previous run
    phaseLog,   \* the phases this run entered, in order
    last,       \* the step just taken
    wall,       \* the wall clock, in whole seconds
    start,      \* start_time of this run, in whole seconds
    tsfile,     \* the number in the --tsfile file, if it holds one
    autoflush,  \* the MFS session of this process, if created, and its autoflush flag
    edited      \* the files changed since the previous run started

vars == << local, cfg, remote, phase, stack, symlinks, errs, now, nextflush,
           result, run, faults, stats, prev, phaseLog, last,
           wall, start, tsfile, autoflush, edited >>

NoResult == [kind |-> "none", hash |-> {}, errs |-> 0, exit |-> 0]

\* What a run did so far.  Times are readings of the monotonic clock, -1 for
\* "not yet": tfirst and tlast of the first and the latest call of the flush
\* closure, lastissue and lastok of the latest flush it issued and the latest
\* that succeeded; close says that every two consecutive calls of the
\* closure were less than the interval apart.  pushed holds the symlink tasks
\* pushed by line 225, consumed those the loop of line 137 has taken, sent
\* the paths of the files uploaded.
NoStats ==
    [uploads |-> 0, deletions |-> 0, copies |-> 0, uflush |-> 0, sflush |-> 0,
     okflush |-> 0, tfirst |-> -1, tlast |-> -1, close |-> TRUE,
     lastissue |-> -1, lastok |-> -1, pushed |-> {}, consumed |-> <<>>, sent |-> {}]

NoStep ==
    [op |-> "none", path |-> <<>>, name |-> "", existed |-> FALSE,
     differs |-> FALSE, uploaded |-> FALSE, failed |-> FALSE, counted |-> 0, calls |-> 0,
     listed |-> FALSE, tstat |-> FALSE, fstat |-> FALSE, same |-> FALSE, absent |-> FALSE,
     copy |-> FALSE, hash |-> {}, thash |-> {}, clean |-> FALSE, left |-> {},
     tick |-> FALSE, due |-> FALSE, flushok |-> FALSE, t |-> 0, deadline |-> 0,
     gap |-> -1, gapok |-> -1]

Step(op, path) == [NoStep EXCEPT !.op = op, !.path = path]

\* Number of the flags that are set.
Count(flags) == Cardinality({ i \in 1..Len(flags) : flags[i] })

CanFault(flags) == faults + Count(flags) <= MaxFaults

Top == stack[Len(stack)]

Pop(s) == SubSeq(s, 1, Len(s) - 1)

\* A fresh re_curse call on the directory at path dir.
NewFrame(dir) ==
    [dir |-> dir, st |-> "enter", mfsents |-> {}, pending |-> {}, ret |-> <<>>, errs0 |-> 0]

Init ==
    /\ local \in LocalTrees
    /\ cfg \in Configs
    /\ remote \in RemoteTrees
    /\ phase = "INIT"
    /\ stack = <<>>
    /\ symlinks = <<>>
    /\ errs = 0
    /\ now = 0
    /\ nextflush = 0
    /\ result = NoResult
    /\ run = 1
    /\ faults = 0
    /\ stats = NoStats
    /\ prev = [result |-> NoResult]
    /\ phaseLog = <<"INIT">>
    /\ last = NoStep
    /\ wall = 12
    /\ start = 12
    /\ tsfile = None
    /\ autoflush = NoSession
    /\ edited = {}


Fatal == [kind |-> "fatal", hash |-> {}, errs |-> 0, exit |-> -1]

\* ErrCount with the increment of line 258 lost.
ErrCountNone(failed) == 0

\* What the error counter gains when the closure around one entry returns.
ErrCount(failed) == IF failed THEN 1 ELSE 0

\* ------------------------------------------------------------------ main()
\* main, lines 109-132: enter the source directory, open the MFS session,
\* take the first flush deadline, canonicalize "." and call re_curse on the
\* root.  Entering the directory (line 109) fails before the session is
\* created, canonicalize (line 132) after.
Start ==
    /\ phase = "INIT"
    /\ \E cdF, cnF \in BOOLEAN :
        /\ cnF => ~cdF
        /\ CanFault(<<cdF, cnF>>)
        /\ faults' = faults + Count(<<cdF, cnF>>)
        /\ IF cdF
           THEN /\ phase' = "FATAL"
                /\ result' = Fatal
                /\ phaseLog' = Append(phaseLog, "FATAL")
                /\ last' = [Step("start", <<>>) EXCEPT !.failed = TRUE]
                /\ UNCHANGED << stack, nextflush, autoflush >>
           ELSE IF cnF
           THEN /\ phase' = "FATAL"
                /\ result' = Fatal
                /\ phaseLog' = Append(phaseLog, "FATAL")
                /\ autoflush' = Session(AutoFlush(cfg.flushivl))
                /\ nextflush' = now
                /\ last' = [Step("start", <<>>) EXCEPT !.failed = TRUE]
                /\ UNCHANGED stack
           ELSE /\ phase' = "TREE_WALK"
                /\ result' = result
                /\ phaseLog' = Append(phaseLog, "TREE_WALK")
                /\ stack' = << NewFrame(<<>>) >>
                /\ nextflush' = now
                /\ autoflush' = Session(AutoFlush(cfg.flushivl))
                /\ last' = Step("start", <<>>)
    /\ errs' = 0
    /\ UNCHANGED << local, cfg, wall, start, tsfile, edited, remote, symlinks, now, run, stats, prev >>

\* ---------------------------------------------------------------- re_curse
\* A re_curse call returns Err: the root call ends main() with exit(-1);
\* a call on a subdirectory ends the closure of that entry in the parent,
\* which counts one error and goes on (lines 227, 256-259).
FailCall(step) ==
    IF Len(stack) = 1
    THEN /\ stack' = <<>>
         /\ phase' = "FATAL"
         /\ result' = Fatal
         /\ errs' = errs
         /\ phaseLog' = Append(phaseLog, "FATAL")
         /\ last' = [step EXCEPT !.failed = TRUE, !.counted = 0]
    ELSE /\ stack' = Pop(stack)
         /\ phase' = phase
         /\ result' = result
         /\ errs' = errs + ErrCount(TRUE)
         /\ phaseLog' = phaseLog
         /\ last' = [step EXCEPT !.failed = TRUE, !.counted = ErrCount(TRUE),
                                 !.left = stack[Len(stack) - 1].pending]

\* re_curse, lines 193-213: list the MFS directory; if that fails remove
\* what is there, create the directory (and stat it when verbose); then
\* open the local directory.
Enter ==
    /\ phase = "TREE_WALK" /\ stack # <<>> /\ Top.st = "enter"
    /\ \E lsF, rmF, mkF, stF, rdF \in BOOLEAN :
        LET p     == Top.dir
            isdir == p \in DOMAIN remote /\ remote[p].type = "dir"
            lsOk  == isdir /\ ~lsF
            rmOk  == ~lsOk /\ p \in DOMAIN remote /\ ~rmF
            r1    == IF rmOk THEN Remove(remote, p) ELSE remote
            mkCan == ~lsOk /\ p \notin DOMAIN r1 /\ ParentIsDir(r1, p)
            mkOk  == mkCan /\ ~mkF
            r2    == IF mkOk THEN Mkdir(r1, p) ELSE r1
            stCan == mkOk /\ cfg.verbosity >= 1
            ready == lsOk \/ (mkOk /\ ~stF)
            calls == 1 + (IF lsOk THEN 0 ELSE 2) + (IF stCan THEN 1 ELSE 0)
            step  == [Step("enter", p) EXCEPT !.calls = calls, !.listed = lsOk]
        IN  /\ lsF => isdir
            /\ rmF => (~lsOk /\ p \in DOMAIN remote)
            /\ mkF => mkCan
            /\ stF => stCan
            /\ rdF => ready
            /\ CanFault(<<lsF, rmF, mkF, stF, rdF>>)
            /\ faults' = faults + Count(<<lsF, rmF, mkF, stF, rdF>>)
            /\ remote' = r2
            /\ IF ready /\ ~rdF
               THEN /\ stack' = [stack EXCEPT ![Len(stack)] =
                            [@ EXCEPT !.st = "iter",
                                      !.mfsents = IF lsOk THEN Children(remote, p) ELSE {},
                                      !.pending = Children(local, p),
                                      !.errs0 = errs]]
                    /\ last' = step
                    /\ UNCHANGED << phase, result, errs, phaseLog >>
               ELSE FailCall(step)
    /\ UNCHANGED << local, cfg, wall, start, tsfile, autoflush, edited, symlinks, now, nextflush, run, stats, prev >>

\* The entry the step takes from the directory iterator: any pending one.
Iterating == phase = "TREE_WALK" /\ stack # <<>> /\ Top.st = "iter"

SetTop(mfsents, pending, ret) ==
    [stack EXCEPT ![Len(stack)] =
        [@ EXCEPT !.mfsents = mfsents, !.pending = pending, !.ret = ret]]

\* Line 213, filter_map(|e| e.ok()): the iterator fails to read the next
\* entry.  The Err is dropped without a word and the failed read ends the
\* iteration: the unread entry and every entry that was still to come are
\* left out, and the loop over the directory is over.
DirentSkip ==
    /\ Iterating /\ Top.pending # {}
    /\ CanFault(<<TRUE>>)
    /\ faults' = faults + 1
    /\ stack' = SetTop(Top.mfsents, {}, Top.ret)
    /\ last' = [Step("skip", Top.dir) EXCEPT !.left = {}]
    /\ UNCHANGED << local, cfg, wall, start, tsfile, autoflush, edited, remote, phase, symlinks, errs, now, nextflush,
                    result, run, stats, prev, phaseLog >>

\* Lines 214-217: the file type cannot be read, or the name is not unicode:
\* the closure returns before the name is taken out of mfsents.
EntryEarlyFail ==
    /\ Iterating
    /\ \E n \in Top.pending : \E ftF \in BOOLEAN :
        /\ ftF \/ ~IsUnicode(n)
        /\ CanFault(<<ftF>>)
        /\ faults' = faults + Count(<<ftF>>)
        /\ stack' = SetTop(Top.mfsents, Top.pending \ {n}, Top.ret)
        /\ errs' = errs + ErrCount(TRUE)
        /\ last' = [Step("early", Top.dir) EXCEPT !.name = n, !.failed = TRUE,
                        !.counted = ErrCount(TRUE), !.left = Top.pending \ {n}]
    /\ UNCHANGED << local, cfg, wall, start, tsfile, autoflush, edited, remote, phase, symlinks, now, nextflush,
                    result, run, stats, prev, phaseLog >>


\* SymlinkBranchRemote resolving the link at once, during the walk.
SymlinkBranchEager(r, dp, target) ==
    IF target \in DOMAIN r /\ ParentIsDir(r, dp) THEN Cpf(r, dp, HashOf(r, target)) ELSE r

\* Lines 219-225: what the symlink branch does to MFS: nothing.
SymlinkBranchRemote(r, dp, target) == r

\* Lines 220-221: the deferred task: the link's path relative to the sync
\* root, and its canonical target relative to the link itself.
SymlinkTask(dp, target) ==
    [from |-> DiffPaths(dp, <<>>), to |-> DiffPaths(target, dp)]

\* Lines 218-225: a symlink is postponed; current_dir() or canonicalize()
\* may fail (a dangling link always does).
EntrySymlink ==
    /\ Iterating
    /\ \E n \in Top.pending : \E fsF \in BOOLEAN :
        LET dp     == Append(Top.dir, n)
            ent    == local[dp]
            failed == fsF \/ ent.dangling
            task   == SymlinkTask(dp, ent.target)
        IN  /\ IsUnicode(n) /\ ent.type = "symlink"
            /\ fsF => ~ent.dangling
            /\ CanFault(<<fsF>>)
            /\ faults' = faults + Count(<<fsF>>)
            /\ stack' = SetTop(Top.mfsents \ {n}, Top.pending \ {n},
                               IF failed THEN Top.ret ELSE Append(Top.ret, task))
            /\ remote' = IF failed THEN remote ELSE SymlinkBranchRemote(remote, dp, ent.target)
            /\ errs' = errs + ErrCount(failed)
            /\ stats' = [stats EXCEPT !.pushed = IF failed THEN @ ELSE @ \cup {task}]
            /\ last' = [Step("symlink", Top.dir) EXCEPT !.name = n,
                            !.existed = n \in Top.mfsents, !.failed = failed,
                            !.counted = ErrCount(failed), !.left = Top.pending \ {n}]
    /\ UNCHANGED << local, cfg, wall, start, tsfile, autoflush, edited, phase, symlinks,
                    now, nextflush, result, run, prev, phaseLog >>

\* Lines 226-227: a directory: call re_curse on it.
EntryDir ==
    /\ Iterating
    /\ \E n \in Top.pending :
        LET dp == Append(Top.dir, n)
        IN  /\ IsUnicode(n) /\ local[dp].type = "dir"
            /\ stack' = Append(SetTop(Top.mfsents \ {n}, Top.pending \ {n}, Top.ret),
                               NewFrame(dp))
            /\ last' = [Step("dir", Top.dir) EXCEPT !.name = n,
                            !.existed = n \in Top.mfsents, !.left = Top.pending \ {n}]
    /\ UNCHANGED << local, cfg, wall, start, tsfile, autoflush, edited, remote, phase, symlinks, errs, now, nextflush,
                    result, run, faults, stats, prev, phaseLog >>

\* ShouldUpload with >= for > in line 232.
ShouldUploadAtOrAfter(existed, syncfrom, ctime) ==
    ~existed \/ (syncfrom.some /\ ctime >= syncfrom.val)

\* Lines 230-236: whether a regular file is uploaded.
ShouldUpload(existed, syncfrom, ctime) ==
    ~existed \/ (syncfrom.some /\ ctime > syncfrom.val)

\* FlushDue with a flush at the deadline itself.
FlushDueAtOrAfter(t, deadline) == t >= deadline

\* Line 118: whether the flush closure flushes at clock reading t.
FlushDue(t, deadline) == t > deadline

\* NextDeadline without the interval.
NextDeadlineNow(t, ivl) == t

\* Line 120: the deadline after a flush at clock reading t.
NextDeadline(t, ivl) == t + ivl

\* Time from an earlier event to t, -1 if there was no such event.
Since(t, earlier) == IF earlier = -1 THEN -1 ELSE t - earlier

\* Lines 229-252: a regular file: decide, open the file (line 243, unless
\* --nocopy), add, copy onto the MFS path, and call the flush closure (lines
\* 115-124).  A file that cannot be opened is not added: no call is made.
EntryFile ==
    /\ Iterating
    /\ \E n \in Top.pending : \E mdF, opF, addF, cpF, flF \in BOOLEAN : \E t \in now..MaxTime :
        LET dp       == Append(Top.dir, n)
            ent      == local[dp]
            existed  == n \in Top.mfsents
            readsMd  == existed /\ cfg.syncfrom.some
            decided  == ~mdF /\ ShouldUpload(existed, cfg.syncfrom, ent.ctime)
            opened   == decided /\ ~opF
            added    == opened /\ ~addF
            cpCan    == added /\ ParentIsDir(remote, dp)
            uploaded == cpCan /\ ~cpF
            ticks    == uploaded /\ cfg.flushivl.some
            due      == ticks /\ FlushDue(t, nextflush)
            flushed  == due /\ ~flF
            failed   == mdF \/ (decided /\ ~uploaded) \/ flF
            calls    == (IF opened THEN 1 ELSE 0) + (IF added THEN 1 ELSE 0)
                        + (IF due THEN 1 ELSE 0)
        IN  /\ IsUnicode(n) /\ ent.type = "file"
            /\ t # now => ticks
            /\ mdF => readsMd
            /\ opF => (decided /\ ~cfg.nocopy)
            /\ addF => opened
            /\ cpF => cpCan
            /\ flF => due
            /\ CanFault(<<mdF, opF, addF, cpF, flF>>)
            /\ faults' = faults + Count(<<mdF, opF, addF, cpF, flF>>)
            /\ stack' = SetTop(Top.mfsents \ {n}, Top.pending \ {n}, Top.ret)
            /\ remote' = IF uploaded THEN Cpf(remote, dp, AddHash(ent.content)) ELSE remote
            /\ now' = t
            /\ nextflush' = IF flushed THEN NextDeadline(t, cfg.flushivl.val) ELSE nextflush
            /\ errs' = errs + ErrCount(failed)
            /\ stats' = [stats EXCEPT !.uploads = @ + (IF uploaded THEN 1 ELSE 0),
                                      !.sent = IF uploaded THEN @ \cup {dp} ELSE @,
                                      !.sflush = @ + (IF due THEN 1 ELSE 0),
                                      !.okflush = @ + (IF flushed THEN 1 ELSE 0),
                                      !.tfirst = IF ticks /\ @ = -1 THEN t ELSE @,
                                      !.tlast = IF ticks THEN t ELSE @,
                                      !.close = IF ticks /\ stats.tlast # -1
                                                THEN @ /\ t - stats.tlast < cfg.flushivl.val
                                                ELSE @,
                                      !.lastissue = IF due THEN t ELSE @,
                                      !.lastok = IF flushed THEN t ELSE @]
            /\ last' = [Step("file", Top.dir) EXCEPT !.name = n, !.existed = existed,
                            !.differs = existed /\ dp \in DOMAIN remote
                                        /\ RemoteSize(remote[dp]) # SizeOf(ent.content),
                            !.uploaded = uploaded, !.failed = failed,
                            !.counted = ErrCount(failed), !.calls = calls,
                            !.left = Top.pending \ {n},
                            !.tick = uploaded, !.due = due, !.flushok = flushed,
                            !.t = t, !.deadline = nextflush,
                            !.gap = IF due THEN Since(t, stats.lastissue) ELSE -1,
                            !.gapok = IF due THEN Since(t, stats.lastok) ELSE -1]
    /\ UNCHANGED << local, cfg, wall, start, tsfile, autoflush, edited, phase, symlinks,
                    result, run, prev, phaseLog >>

\* Lines 260-262: one turn of the loop over the names left in mfsents.
DeleteStale ==
    /\ Iterating /\ Top.pending = {}
    /\ \E n \in Top.mfsents : \E rmF \in BOOLEAN :
        LET dp   == Append(Top.dir, n)
            step == [Step("delete", Top.dir) EXCEPT !.name = n, !.calls = 1]
        IN  /\ CanFault(<<rmF>>)
            /\ faults' = faults + Count(<<rmF>>)
            /\ stats' = [stats EXCEPT !.deletions = @ + 1]
            /\ IF rmF \/ dp \notin DOMAIN remote
               THEN /\ remote' = remote
                    /\ FailCall(step)
               ELSE /\ remote' = Remove(remote, dp)
                    /\ stack' = SetTop(Top.mfsents \ {n}, Top.pending, Top.ret)
                    /\ last' = step
                    /\ UNCHANGED << phase, result, errs, phaseLog >>
    /\ UNCHANGED << local, cfg, wall, start, tsfile, autoflush, edited, symlinks, now, nextflush, run, prev >>

\* PhaseAfterWalk with the flush of line 133 left out.
PhaseAfterWalkNoFlush == "SYMLINK_PASS"

\* Line 133: what main() does once the root call has returned.
PhaseAfterWalk == "FLUSH_1"

\* Line 263 and lines 228, 132: re_curse returns its deferred symlinks; the
\* caller appends them to its own, and main() keeps those of the root.
ReturnOk ==
    /\ Iterating /\ Top.pending = {} /\ Top.mfsents = {}
    /\ LET step == [Step("return", Top.dir) EXCEPT !.clean = (errs = Top.errs0)]
       IN  IF Len(stack) = 1
           THEN /\ stack' = <<>>
                /\ symlinks' = Top.ret
                /\ phase' = PhaseAfterWalk
                /\ phaseLog' = Append(phaseLog, PhaseAfterWalk)
                /\ last' = step
           ELSE /\ stack' = [Pop(stack) EXCEPT ![Len(stack) - 1] =
                                [@ EXCEPT !.ret = @ \o Top.ret]]
                /\ last' = step
                /\ UNCHANGED << symlinks, phase, phaseLog >>
    /\ UNCHANGED << local, cfg, wall, start, tsfile, autoflush, edited, remote, errs, now, nextflush, result, run,
                    faults, stats, prev >>


\* main() ends with exit(-1) at step `step`.
Abort(step) ==
    /\ phase' = "FATAL"
    /\ result' = Fatal
    /\ phaseLog' = Append(phaseLog, "FATAL")
    /\ last' = [step EXCEPT !.failed = TRUE, !.counted = 0]

\* Line 137: the phase after the first flush: the loop over the symlinks,
\* which is left at once when there are none.
EnterSymlinkPass(todo) ==
    IF todo = <<>> THEN <<"SYMLINK_PASS", "FLUSH_2">> ELSE <<"SYMLINK_PASS">>

\* Line 133: the flush after the tree walk.
Flush1 ==
    /\ phase = "FLUSH_1"
    /\ \E flF \in BOOLEAN :
        /\ CanFault(<<flF>>)
        /\ faults' = faults + Count(<<flF>>)
        /\ stats' = [stats EXCEPT !.uflush = @ + 1]
        /\ IF flF
           THEN Abort([Step("flush1", <<>>) EXCEPT !.calls = 1])
           ELSE /\ phase' = IF symlinks = <<>> THEN "FLUSH_2" ELSE "SYMLINK_PASS"
                /\ phaseLog' = phaseLog \o EnterSymlinkPass(symlinks)
                /\ result' = result
                /\ last' = [Step("flush1", <<>>) EXCEPT !.calls = 1]
    /\ UNCHANGED << local, cfg, wall, start, tsfile, autoflush, edited, remote, stack, symlinks, errs, now, nextflush, run, prev >>

\* NeedsCopy without the comparison of lines 148-152.
NeedsCopyAlways(fstatOk, fhash, thash) == TRUE

\* Lines 148-152: whether the symlink's MFS path has to be (re)written.
NeedsCopy(fstatOk, fhash, thash) == ~(fstatOk /\ fhash = thash)

\* Lines 137-163: one turn of the loop over the deferred symlinks.
SymlinkStep ==
    /\ phase = "SYMLINK_PASS" /\ symlinks # <<>>
    /\ \E tsF, fsF, cpF \in BOOLEAN :
        LET task    == Head(symlinks)
            named   == PathIsUnicode(task.from) /\ PathIsUnicode(task.to)
            from    == Cd(<<>>, task.from)
            to      == Cd(from.path, task.to)
            tCan    == named /\ to.inside /\ to.path \in DOMAIN remote
            tOk     == tCan /\ ~tsF
            thash   == IF tCan THEN HashOf(remote, to.path) ELSE {}
            fCan    == tOk /\ from.path \in DOMAIN remote
            fOk     == fCan /\ ~fsF
            fhash   == IF fCan THEN HashOf(remote, from.path) ELSE {}
            issued  == tOk /\ NeedsCopy(fOk, fhash, thash)
            cpCan   == issued /\ ParentIsDir(remote, from.path)
            copied  == cpCan /\ ~cpF
            fatal   == ~named \/ (issued /\ ~copied)
            counted == named /\ ~tOk
            calls   == (IF named THEN 1 ELSE 0) + (IF tOk THEN 1 ELSE 0)
                       + (IF issued THEN 1 ELSE 0)
            step    == [Step("install", from.path) EXCEPT
                            !.tstat = tOk, !.fstat = fOk, !.absent = tOk /\ ~fCan,
                            !.same = fCan /\ fhash = thash, !.copy = issued,
                            !.hash = IF issued THEN thash ELSE {}, !.thash = thash,
                            !.calls = calls, !.failed = fatal \/ counted,
                            !.counted = ErrCount(counted)]
        IN  /\ tsF => tCan
            /\ fsF => fCan
            /\ cpF => cpCan
            /\ CanFault(<<tsF, fsF, cpF>>)
            /\ faults' = faults + Count(<<tsF, fsF, cpF>>)
            /\ remote' = IF copied THEN Cpf(remote, from.path, thash) ELSE remote
            /\ stats' = [stats EXCEPT !.copies = @ + (IF issued THEN 1 ELSE 0),
                                      !.consumed = Append(@, task)]
            /\ IF fatal
               THEN /\ Abort(step)
                    /\ UNCHANGED << symlinks, errs >>
               ELSE /\ symlinks' = Tail(symlinks)
                    /\ errs' = errs + ErrCount(counted)
                    /\ phase' = IF Tail(symlinks) = <<>> THEN "FLUSH_2" ELSE phase
                    /\ phaseLog' = IF Tail(symlinks) = <<>> THEN Append(phaseLog, "FLUSH_2")
                                   ELSE phaseLog
                    /\ result' = result
                    /\ last' = step
    /\ UNCHANGED << local, cfg, wall, start, tsfile, autoflush, edited, stack, now, nextflush, run, prev >>

\* Line 164: the flush after the symlink pass.
Flush2 ==
    /\ phase = "FLUSH_2"
    /\ \E flF \in BOOLEAN :
        /\ CanFault(<<flF>>)
        /\ faults' = faults + Count(<<flF>>)
        /\ stats' = [stats EXCEPT !.uflush = @ + 1]
        /\ IF flF
           THEN Abort([Step("flush2", <<>>) EXCEPT !.calls = 1])
           ELSE /\ phase' = "REPORT"
                /\ phaseLog' = Append(phaseLog, "REPORT")
                /\ result' = result
                /\ last' = [Step("flush2", <<>>) EXCEPT !.calls = 1]
    /\ UNCHANGED << local, cfg, wall, start, tsfile, autoflush, edited, remote, stack, symlinks, errs, now, nextflush, run, prev >>

\* Lines 167-183: the exit code of a run that got its root hash.
ExitCode(n) == IF n = 0 THEN 0 ELSE 1

\* Lines 167-175: the timestamp file is written after a run without errors.
WritesTsFile(n, syncff) == n = 0 /\ syncff

\* Number of decimal digits of n.
RECURSIVE Digits(_)
Digits(n) == IF n < 10 THEN 1 ELSE 1 + Digits(n \div 10)

RECURSIVE Pow10(_)
Pow10(k) == IF k = 0 THEN 1 ELSE 10 * Pow10(k - 1)

\* The number written by the first k digits of n, 1 <= k <= Digits(n).
DigitsPrefix(n, k) == n \div Pow10(Digits(n) - k)

\* Lines 168-173: what the timestamp file holds after fs::write of the start
\* time as a decimal string: that number, or, when the write fails, what it
\* held before (the file could not be opened), or the digits written before
\* the failure: none (the file holds no number) or a proper prefix.
TsFileAfterWrite(old, time, failed, opened, kept) ==
    IF ~failed THEN Some(time)
    ELSE IF ~opened THEN old
    ELSE IF kept = 0 THEN None
    ELSE Some(DigitsPrefix(time, kept))

\* The outcome of a run that panics (a failed expect): nothing is reported.
Panic == [kind |-> "panic", hash |-> {}, errs |-> 0, exit |-> 101]

\* Lines 165-188: stat the destination, write the timestamp file, print the
\* outcome and exit.  In the arm of 0 errors line 176 panics when the wall
\* clock now reads earlier than start_time (bkF).
Report ==
    /\ phase = "REPORT"
    /\ \E stF, wrF, bkF, opened \in BOOLEAN : \E kept \in 0..(Digits(start) - 1) :
        /\ wrF => (~stF /\ <<>> \in DOMAIN remote /\ WritesTsFile(errs, cfg.syncff))
        /\ bkF => (~stF /\ <<>> \in DOMAIN remote /\ errs = 0)
        /\ opened => wrF
        /\ kept > 0 => opened
        /\ CanFault(<<stF, wrF, bkF>>)
        /\ faults' = faults + Count(<<stF, wrF, bkF>>)
        /\ IF stF \/ <<>> \notin DOMAIN remote
           THEN /\ Abort([Step("report", <<>>) EXCEPT !.calls = 1])
                /\ tsfile' = tsfile
           ELSE /\ tsfile' = IF WritesTsFile(errs, cfg.syncff)
                             THEN TsFileAfterWrite(tsfile, start, wrF, opened, kept)
                             ELSE tsfile
                /\ phaseLog' = phaseLog
                /\ IF bkF
                   THEN /\ phase' = "PANIC"
                        /\ result' = Panic
                        /\ last' = [Step("report", <<>>) EXCEPT !.calls = 1, !.failed = TRUE]
                   ELSE /\ phase' = "DONE"
                        /\ result' = [kind |-> "ok", hash |-> HashOf(remote, <<>>),
                                      errs |-> errs, exit |-> ExitCode(errs)]
                        /\ last' = [Step("report", <<>>) EXCEPT !.calls = 1]
    /\ UNCHANGED << local, cfg, wall, start, autoflush, edited, remote, stack, symlinks,
                    errs, now, nextflush, run, stats, prev >>

\* Whether the step just taken belongs to the pause after a run.
InPause == last.op \in {"tick", "edit"}

\* A second passes between two runs, before any file is changed.  The wall
\* clock is read by every run but used only with --tsfile; the pauses
\* explored are those of histories without a failed call so far.
Tick ==
    /\ phase = "DONE" /\ run < MaxRuns /\ ~InPause /\ faults = 0 /\ cfg.syncff
    /\ wall' = wall + 1
    /\ edited' = IF InPause THEN edited ELSE {}
    /\ last' = Step("tick", <<>>)
    /\ UNCHANGED << local, cfg, remote, phase, stack, symlinks, errs, now, nextflush,
                    result, run, faults, stats, prev, phaseLog, start, tsfile, autoflush >>

\* Between two runs the content of a file is changed; its change time is
\* the second of the change.
Edit ==
    /\ phase = "DONE" /\ run < MaxRuns /\ last.op # "edit" /\ faults = 0
    /\ \E p \in Editable(local) :
        /\ local' = [local EXCEPT ![p] = LFile(NewContent(@.content), wall)]
        /\ edited' = (IF InPause THEN edited ELSE {}) \cup {p}
        /\ last' = Step("edit", p)
    /\ UNCHANGED << cfg, remote, phase, stack, symlinks, errs, now, nextflush,
                    result, run, faults, stats, prev, phaseLog, wall, start, tsfile, autoflush >>

\* The program is started again with the same command line (lines 48-106:
\* start_time is taken, the change-time limit is read again); readings of
\* the monotonic clock are relative to the start of the process.
NextRun ==
    /\ phase = "DONE" /\ run < MaxRuns
    /\ run' = run + 1
    /\ prev' = [result |-> result]
    /\ phase' = "INIT"
    /\ phaseLog' = <<"INIT">>
    /\ result' = NoResult
    /\ stats' = NoStats
    /\ errs' = 0
    /\ now' = 0
    /\ nextflush' = 0
    /\ start' = wall
    /\ cfg' = [cfg EXCEPT !.syncfrom = SyncFrom(cfg.after, cfg.syncff, tsfile)]
    /\ edited' = IF InPause THEN edited ELSE {}
    /\ autoflush' = NoSession
    /\ last' = Step("rerun", <<>>)
    /\ UNCHANGED << local, remote, stack, symlinks, faults, wall, tsfile >>

Next ==
    \/ Start
    \/ Enter
    \/ DirentSkip
    \/ EntryEarlyFail
    \/ EntrySymlink
    \/ EntryDir
    \/ EntryFile
    \/ DeleteStale
    \/ ReturnOk
    \/ Flush1
    \/ SymlinkStep
    \/ Flush2
    \/ Report
    \/ Tick
    \/ Edit
    \/ NextRun

Spec == Init /\ [][Next]_vars

TypeOK ==
    /\ phase \in {"INIT", "TREE_WALK", "FLUSH_1", "SYMLINK_PASS", "FLUSH_2", "REPORT", "DONE",
                 "FATAL", "PANIC"}
    /\ errs \in Nat
    /\ faults \in 0..MaxFaults
    /\ now \in 0..MaxTime
    /\ run \in 1..MaxRuns
    /\ wall \in Nat /\ start \in Nat /\ start <= wall
    /\ tsfile \in {None} \cup { Some(v) : v \in 0..wall }
    /\ autoflush \in {NoSession, Session(TRUE), Session(FALSE)}
    /\ edited \subseteq DOMAIN local

\* ------------------------------------------------------------------ claims
LocalNames(d) == Children(local, d)

LocalFileDirNames(d) ==
    { n \in Children(local, d) : local[Append(d, n)].type \in {"file", "dir"} }

\* C1: when a re_curse call returns Ok and no per-entry error was counted
\* during it, (a) every remote child of the directory is the name of a local
\* entry and (b) every local file and directory name is a remote child.
C1_SetEquality ==
    (last.op = "return" /\ last.clean) =>
        /\ Children(remote, last.path) \subseteq LocalNames(last.path)
        /\ LocalFileDirNames(last.path) \subseteq Children(remote, last.path)

\* C1, part (a) alone: no stale name survives a call that returns Ok.
C1_NoStaleName ==
    (last.op = "return" /\ last.clean) =>
        Children(remote, last.path) \subseteq LocalNames(last.path)


FileStep == last.op = "file"

LastEntry == local[Append(last.path, last.name)]

\* C2: without --after, a regular file is uploaded if and only if its name
\* was not in the remote listing or the listed size differs from its size.
C2_SizeDiffUpload ==
    (FileStep /\ ~cfg.syncfrom.some /\ ~last.failed) =>
        (last.uploaded <=> (~last.existed \/ last.differs))

\* C3: with --after T, a regular file is uploaded only if its name was not
\* in the remote listing or its change time is later than T, and it is
\* uploaded in each of these cases unless the entry fails; a file changed
\* exactly at T that exists remotely is not uploaded.
C3_ChangeTimeUpload ==
    (FileStep /\ cfg.syncfrom.some) =>
        /\ last.uploaded => (~last.existed \/ LastEntry.ctime > cfg.syncfrom.val)
        /\ (~last.failed /\ (~last.existed \/ LastEntry.ctime > cfg.syncfrom.val))
                => last.uploaded

\* A file changed exactly at T, of another size than its remote copy, has
\* been passed over.
C3_Witness ==
    /\ FileStep /\ cfg.syncfrom.some /\ ~last.failed
    /\ last.existed /\ last.differs
    /\ LastEntry.ctime = cfg.syncfrom.val
    /\ ~last.uploaded

\* The step just taken ended the closure of a local entry with an error:
\* the entry itself failed, or the re_curse call on it returned Err.
EntryFailed ==
    /\ last.failed
    /\ \/ last.op \in {"early", "symlink", "file"}
       \/ last.op \in {"enter", "delete"} /\ last.path # <<>>

\* C4: a failure while one local entry is processed adds exactly one to the
\* error counter, and the directory's loop goes on with every sibling that
\* was still to come; the call of the directory does not return.
C4_EntryErrorAbsorbed ==
    [][ EntryFailed' =>
            /\ errs' = errs + 1
            /\ phase' = "TREE_WALK"
            /\ Len(stack') >= 1
            /\ Top'.st = "iter"
            /\ Top'.pending = last'.left
            /\ IF last'.op \in {"enter", "delete"}
               THEN Top'.dir = SubSeq(last'.path, 1, Len(last'.path) - 1)
               ELSE Top'.dir = last'.path ]_vars

\* A call on a subdirectory returned Err while its parent still had
\* siblings to process.
C4_Witness ==
    /\ EntryFailed /\ last.op \in {"enter", "delete"}
    /\ errs >= 1 /\ stack # <<>> /\ Top.pending # {}

\* C5: a failure in one turn of the symlink loop is counted as one error
\* and does not end the run.
C5_SymlinkFailureAbsorbed ==
    (last.op = "install" /\ last.failed) => (phase # "FATAL" /\ last.counted = 1)

\* C6: a run that reports a root hash went through the phases in order,
\* each once, and flushed exactly once after the walk and once after the
\* symlink pass.
C6_PhaseOrder ==
    /\ result.kind = "ok" =>
          /\ phaseLog = <<"INIT", "TREE_WALK", "FLUSH_1", "SYMLINK_PASS", "FLUSH_2", "REPORT">>
          /\ stats.uflush = 2
    /\ phase \in {"INIT", "TREE_WALK", "FLUSH_1"} => stats.uflush = 0
    /\ phase \in {"SYMLINK_PASS", "FLUSH_2"} => stats.uflush = 1
    /\ phase = "SYMLINK_PASS" => stack = <<>>

\* A run with a flush interval whose flush closure flushed during the walk
\* has reported its hash.
C6_Witness ==
    result.kind = "ok" /\ cfg.flushivl.some /\ stats.sflush >= 1 /\ stats.uploads >= 2

\* C7: the walk's step on a symlink calls nothing in MFS and leaves it as
\* it is; a symlink is looked up and copied only in the symlink pass, when
\* no re_curse call is active and the first flush has been made.
C7_SymlinksDeferred ==
    [][ /\ last'.op = "symlink" => (remote' = remote /\ last'.calls = 0)
        /\ last'.op = "install" =>
              (phase = "SYMLINK_PASS" /\ stack = <<>> /\ stats.uflush = 1
               /\ last'.path \in DOMAIN local /\ local[last'.path].type = "symlink") ]_vars

\* A symlink has been installed as a copy in the symlink pass.
C7_Witness ==
    last.op = "install" /\ last.copy /\ ~last.failed /\ stats.uflush = 1

\* C8 as stated: when the target's stat succeeds, a copy is issued if and
\* only if the symlink's path has no remote content or its hash differs
\* from the target's, and the copy installs the target's hash.
C8_CopyIffAbsentOrDiffers ==
    (last.op = "install" /\ last.tstat) =>
        /\ last.copy <=> (last.absent \/ ~last.same)
        /\ (last.copy /\ ~last.failed) => HashOf(remote, last.path) = last.thash

\* C8 as amended: a copy is issued if and only if the stat of the symlink's
\* path fails or its hash differs from the target's.
C8_CopyIffStatFailsOrDiffers ==
    (last.op = "install" /\ last.tstat) =>
        /\ last.copy <=> (~last.fstat \/ ~last.same)
        /\ (last.copy /\ ~last.failed) => HashOf(remote, last.path) = last.thash

\* Both stats succeeded, the hashes were equal and no copy was issued.
C8_Witness ==
    last.op = "install" /\ last.tstat /\ last.fstat /\ last.same /\ ~last.copy

\* The second of two runs, the first of which ended without errors, no call
\* into the file system or MFS failed in either, and no file was changed
\* between them.
SecondCleanRun ==
    run = 2 /\ prev.result.kind = "ok" /\ prev.result.errs = 0 /\ faults = 0 /\ edited = {}

\* C9: the second run copies no symlink.
C9_SymlinkIdempotent ==
    SecondCleanRun => stats.copies = 0

\* C10: without --after, the second run uploads nothing, deletes nothing,
\* counts no error and reports the hash of the first.
C10_Convergence ==
    (SecondCleanRun /\ ~cfg.syncfrom.some /\ phase = "DONE") =>
        /\ stats.uploads = 0
        /\ stats.deletions = 0
        /\ result.errs = 0
        /\ result.hash = prev.result.hash

\* The symlinks whose target is a file changed since the previous run.
LinksToEdited ==
    { q \in DOMAIN local :
        local[q].type = "symlink" /\ ~local[q].dangling /\ local[q].target \in edited }

\* C11: when the file a symlink points to was changed after a run and the
\* sync is run again with no failing call, at the end of that run the remote
\* entry of the symlink holds the hash of the new content of the file.
C11_SymlinkFollowsEdit ==
    (phase = "DONE" /\ run > 1 /\ faults = 0) =>
        \A q \in LinksToEdited :
            /\ q \in DOMAIN remote
            /\ HashOf(remote, q) = AddHash(local[local[q].target].content)

\* The flush interval of the command line.
Interval == cfg.flushivl.val

\* Whether the tree walk of a run with a positive flush interval is over.
WalkDoneWithInterval ==
    phase = "FLUSH_1" /\ cfg.flushivl.some /\ Interval > 0

\* ceil(a / b) for a >= 0 and b > 0.
Ceil(a, b) == (a + b - 1) \div b

\* C12, as stated: after a tree walk whose uploads were each less than I
\* after the one before, the scheduler has issued ceil(E / I) flushes, E being
\* the time the uploads took, counted from the creation of the scheduler or
\* from the first upload.
C12_FlushCountIsCeil ==
    (WalkDoneWithInterval /\ stats.uploads > 0 /\ stats.close) =>
        stats.sflush \in { Ceil(stats.tlast, Interval),
                           Ceil(stats.tlast - stats.tfirst, Interval) }

\* C12, amended: the number of scheduler flushes that succeeded is at most
\* ceil(E / I), E being the time from the creation of the scheduler to the
\* latest upload, and at most the number k of uploads.
C12_FlushCountBounded ==
    (cfg.flushivl.some /\ Interval > 0 /\ stats.tlast # -1) =>
        /\ stats.okflush <= Ceil(stats.tlast, Interval)
        /\ stats.okflush <= stats.uploads

\* Two uploads, the second followed by the second successful flush.
C12_Witness ==
    /\ cfg.flushivl.some /\ Interval > 0
    /\ FileStep /\ last.flushok
    /\ stats.uploads = 2 /\ stats.okflush = 2

\* The phases entered by a run that completed.
AllPhases ==
    <<"INIT", "TREE_WALK", "FLUSH_1", "SYMLINK_PASS", "FLUSH_2", "REPORT">>

\* The failure of the step just taken was passed on to main().
Unabsorbed == last.failed /\ last.counted = 0

\* The three outcomes of a run.
Outcomes ==
    /\ result.kind \in {"none", "ok", "fatal"}
    /\ result.kind = "ok" <=> phase = "DONE"
    /\ result.kind = "fatal" <=> phase = "FATAL"
    /\ phase \in {"DONE", "FATAL"} \/ result.kind = "none"
    /\ phase = "DONE" =>
        /\ phaseLog = AllPhases
        /\ result.errs = errs
        /\ result.hash = HashOf(remote, <<>>) /\ result.hash # {}
        /\ result.exit = 0 <=> errs = 0
        /\ result.exit = 1 <=> errs > 0
    /\ phase = "FATAL" => (result.exit = -1 /\ result.hash = {})
    /\ phase = "FATAL" <=> Unabsorbed

\* Within a run the count grows by one with every failure that is absorbed,
\* and changes in no other step.
ErrsCountAbsorbed ==
    run' = run =>
        errs' = errs + (IF last'.failed /\ phase' \notin {"FATAL", "PANIC"} THEN 1 ELSE 0)

\* C13: a run ends with exit code 0 iff all phases completed with no error
\* counted, with 1 iff they completed with n > 0 errors (the root hash is
\* reported), and as fatal (exit code -1, no hash) iff a failure was not
\* absorbed; the count is the number of failures absorbed in the tree walk
\* and the symlink pass, and never decreases during the run.
C13_Outcomes == []Outcomes /\ [][ErrsCountAbsorbed]_vars

\* C13, but for the panic of line 176: unless the run panicked, it ends in
\* one of the three outcomes, and the count is as claimed in every run.
C13_OutcomesUnlessPanic == [](phase # "PANIC" => Outcomes) /\ [][ErrsCountAbsorbed]_vars


\* The rule of the flush closure, at the file just processed: a flush is
\* issued only after the upload succeeded; with an interval it is issued iff
\* the clock reading is past the deadline; after a successful flush the
\* deadline is that reading plus the interval, and else it is unchanged;
\* without an interval no flush is issued.
SchedulerRule ==
    FileStep =>
        /\ last.due => last.uploaded
        /\ last.flushok => last.due
        /\ cfg.flushivl.some => (last.due <=> (last.uploaded /\ last.t > last.deadline))
        /\ ~cfg.flushivl.some => ~last.due
        /\ nextflush = IF last.flushok THEN last.t + Interval ELSE last.deadline

\* No other step of a run moves the deadline.
DeadlineOnlyAtUpload ==
    (last'.op \notin {"file", "start", "rerun"}) => nextflush' = nextflush

\* A flush issued by the scheduler is more than the interval after the
\* flush it issued before.
FlushesApart ==
    (FileStep /\ last.due /\ last.gap # -1) => last.gap > Interval

\* A flush issued by the scheduler is more than the interval after its
\* latest successful flush.
FlushesApartAfterSuccess ==
    (FileStep /\ last.due /\ last.gapok # -1) => last.gapok > Interval

\* C14, as stated: the rule of the flush scheduler, and any two consecutive
\* flushes it issues are more than I apart.
C14_SchedulerRuleAnyFlush ==
    [](SchedulerRule /\ FlushesApart) /\ [][DeadlineOnlyAtUpload]_vars

\* C14, amended: the rule of the flush scheduler, and a flush it issues is
\* more than I after its latest successful flush.
C14_SchedulerRule ==
    [](SchedulerRule /\ FlushesApartAfterSuccess) /\ [][DeadlineOnlyAtUpload]_vars

\* With a positive interval, a flush is issued after an earlier one
\* succeeded.
C14_Witness ==
    FileStep /\ cfg.flushivl.some /\ Interval > 0 /\ last.due /\ last.gapok # -1

\* The MFS session of the run has been created.
SessionCreated == autoflush.some

\* C15, as stated: whenever a flush interval is configured, the session is
\* created with autoflush off.
C15_AutoflushOff ==
    (SessionCreated /\ cfg.flushivl.some) => ~autoflush.val

\* C15, amended: the session is created with autoflush off when the
\* configured interval is positive (and when none is configured), and with
\* autoflush on when the configured interval is zero.
C15_AutoflushOffUnlessZero ==
    SessionCreated =>
        /\ (cfg.flushivl.some /\ Interval > 0) => ~autoflush.val
        /\ ~cfg.flushivl.some => ~autoflush.val
        /\ (cfg.flushivl.some /\ Interval = 0) => autoflush.val

\* A tree walk under a session created with a positive interval.
C15_Witness ==
    /\ phase = "TREE_WALK" /\ cfg.flushivl.some /\ Interval > 0
    /\ SessionCreated /\ ~autoflush.val

\* Path p is a directory of the destination.
IsRemoteDir(p) == p \in DOMAIN remote /\ remote[p].type = "dir"

\* The steps that process a child of a directory.
ChildOps == {"skip", "early", "symlink", "dir", "file", "delete"}

\* C16: in every reconcile call the remote directory exists before a child
\* is processed: the call becomes ready for its entries only when the listing
\* succeeded or the path was created (then it is empty), the directory of
\* every call that is processing entries exists, also at every step that
\* processes a child, and a call whose listing and creation fail returns an
\* error without having processed a child.
C16_DirBeforeChildren ==
    /\ \A i \in 1..Len(stack) : stack[i].st = "iter" => IsRemoteDir(stack[i].dir)
    /\ last.op \in ChildOps => IsRemoteDir(last.path)
    /\ (last.op = "enter" /\ ~last.failed) =>
          /\ IsRemoteDir(last.path)
          /\ last.listed \/ Children(remote, last.path) = {}
    /\ (last.op = "enter" /\ last.failed) =>
          \A i \in 1..Len(stack) : stack[i].dir # last.path

\* A call below the root found no directory to list, created it and is
\* ready for its entries.
C16_Witness ==
    /\ last.op = "enter" /\ ~last.failed /\ ~last.listed /\ last.path # <<>>
    /\ stack # <<>> /\ Top.dir = last.path /\ Top.st = "iter"

\* C17: the stale-deletion loop removes a remote child only if no local
\* entry of the directory has its name.
C17_DeletesOnlyStale ==
    (last.op = "delete" /\ ~last.failed) => last.name \notin LocalNames(last.path)

\* The symlink pass of the run is over.
SymlinkPassOver == phase \in {"FLUSH_2", "REPORT", "DONE", "PANIC"}

\* C18: when the symlink pass is over, the tasks it consumed are the tasks
\* pushed during the tree walk, each of them once.
C18_NoSymlinkLost ==
    SymlinkPassOver =>
        /\ { stats.consumed[i] : i \in 1..Len(stats.consumed) } = stats.pushed
        /\ Len(stats.consumed) = Cardinality(stats.pushed)

\* A run that took its limit from the timestamp file has ended; the run
\* before it ended without errors and no call failed.
CleanRunsWithTsFile ==
    phase = "DONE" /\ run > 1 /\ cfg.syncff /\ ~cfg.after.some
    /\ prev.result.errs = 0 /\ faults = 0

\* C19: with a timestamp file, every file changed since the previous run
\* started, after that run had uploaded it, is uploaded again by this run and
\* has its new content in the destination.
C19_NoChangeLost ==
    CleanRunsWithTsFile =>
        \A p \in edited :
            /\ p \in stats.sent
            /\ p \in DOMAIN remote /\ remote[p] = RNode("file", local[p].content)

\* C19, first half: the timestamp file changes only at the end of a run
\* without errors; it then holds the start time of that run, or, when the
\* write failed after the file was opened, no number or the first digits of
\* the start time.
C19_TsFileHoldsStart ==
    [][tsfile' # tsfile =>
        /\ phase = "REPORT" /\ phase' \in {"DONE", "PANIC"} /\ errs = 0
        /\ \/ tsfile' = Some(start)
           \/ /\ faults' > faults
              /\ tsfile' \in {None} \cup
                    { Some(DigitsPrefix(start, k)) : k \in 1..(Digits(start) - 1) }]_vars

\* The session exists from the start of the tree walk on, and not after a
\* start that failed to enter the source directory.
SessionIffStarted ==
    /\ phase \in {"TREE_WALK", "FLUSH_1", "SYMLINK_PASS", "FLUSH_2", "REPORT", "DONE", "PANIC"}
          => SessionCreated
    /\ ~SessionCreated => phase \in {"INIT", "FATAL"}

====
